---- MODULE Spec2Model ----
(***************************************************************************)
(* Model of the task pipeline of ai_ops_assistant: the tools with their    *)
(* caches (tools/base_tool.py, tools/github_tool.py, tools/weather_tool.py)*)
(* the retry decorator (utils.py), the Executor (agents/executor.py) and   *)
(* the Verifier (agents/verifier.py, llm/client.py).                       *)
(*                                                                         *)
(* Python dicts are objects with identity: a tool returns the very dict it *)
(* stored in its cache, and the Executor writes into the dict it got back. *)
(* The model therefore keeps result dicts in a heap and passes references. *)
(* Time is counted in ticks of half a second (the pacing delay).           *)
(***************************************************************************)
EXTENDS Integers, Sequences, FiniteSets, TLC

\* ---------------------------------------------------------------- bounds
MaxSteps == 2        \* longest plan handed to execute_plan
MaxPlans == 2        \* execute_plan calls in one behaviour
MaxTotalSteps == 2   \* steps of all the plans of one behaviour together
MaxTime == 700       \* no time passes between requests beyond this instant
MaxResults == 4      \* longest result list handed to the Verifier alone
MaxWords == 3        \* longest task text, in words
MaxRawSteps == 2     \* longest step list in an answer of the local LLM
MaxCallSteps == 3    \* steps of two calls of execute_plan in flight, together

\* ------------------------------------------------------- program constants
MAX_RETRIES == 3         \* Config.MAX_RETRIES
RETRY_DELAY == 1         \* Config.RETRY_DELAY, seconds
max_retries == 3         \* @retry_on_failure(max_retries=3, ...)
delay == 1               \* @retry_on_failure(..., delay=1.0), seconds
cache_ttl == 300         \* BaseTool.cache_ttl, seconds
TicksPerSecond == 2      \* time.sleep(0.5) is one tick
PaceDelay == 1           \* time.sleep(0.5) between steps, in ticks

None == "None"

\* ------------------------------------------------------ parameter mappings
\* A dict is a sequence of <<key, value>> pairs in insertion order.  Values
\* are written as Python literals, so the int 5 and the str '5' differ.
StrValues == {"'python'", "'5'", "'London'", "'Tokyo'", "'open source'", "'ai'",
              "'artificial intelligence'", "'Find'", "'Repos'", "'Weather'",
              "'Python'", "'In'", "'Hello'"}
IntValues == {"5"}

\* A value that is a list of names where a dict is expected, such as
\* ["query", "per_page"], is written as pairs whose second component is
\* ListItem: `k in parameters` reads both alike, `**parameters` does not.
ListItem == "<list item>"

is_mapping(parameters) ==
    \A j \in 1..Len(parameters) : parameters[j][2] # ListItem

Has(kwargs, k) == \E j \in 1..Len(kwargs) : kwargs[j][1] = k

Get(kwargs, k, default) ==
    IF Has(kwargs, k)
    THEN LET j == CHOOSE j \in 1..Len(kwargs) : kwargs[j][1] = k IN kwargs[j][2]
    ELSE default

\* the keys the plans use, in the order sort_keys=True puts them
KeyOrder == <<"city", "per_page", "query">>

\* a fingerprint of the pairs in the order the dict holds them
get_cache_key_insertionOrder(kwargs) == kwargs

\* json.dumps(kwargs, sort_keys=True): the pairs in key order.  md5 of the
\* text is taken to be injective, so the text stands for the digest.
get_cache_key(kwargs) ==
    LET present == SelectSeq(KeyOrder, LAMBDA k : Has(kwargs, k))
    IN  [j \in 1..Len(present) |-> <<present[j], Get(kwargs, present[j], None)>>]

\* ------------------------------------------------------------- the texts
\* A task text is a sequence of lower-case words separated by single
\* spaces.  user_lower and text_lower are the text itself.
Vocabulary == {"find", "repos", "weather", "python", "tokyo", "in", "hello"}

\* the keywords and entity names of llm/client.py and utils.py that occur
\* in each word as a substring (`keyword in user_lower`); none of them
\* spans two words of the vocabulary
Substrings == [w \in Vocabulary |->
    CASE w = "find" -> {"find"}
      [] w = "repos" -> {"repo"}
      [] w = "weather" -> {"weather"}
      [] w = "python" -> {"python"}
      [] w = "tokyo" -> {"tokyo"}
      [] OTHER -> {}]

\* k in text_lower
InText(k, text) == \E j \in 1..Len(text) : k \in Substrings[text[j]]

\* str.title() of a word of the vocabulary, as a Python literal
Title == [w \in Vocabulary |->
    CASE w = "find" -> "'Find'"
      [] w = "repos" -> "'Repos'"
      [] w = "weather" -> "'Weather'"
      [] w = "python" -> "'Python'"
      [] w = "tokyo" -> "'Tokyo'"
      [] w = "in" -> "'In'"
      [] OTHER -> "'Hello'"]

\* the names a text is searched for, as Python literals of themselves
Literal == [k \in {"python", "tokyo"} |->
    IF k = "python" THEN "'python'" ELSE "'Tokyo'"]

\* the first name of a list that occurs in the text, or 0
FirstInText(names, text) ==
    IF \E j \in 1..Len(names) : InText(names[j], text)
    THEN names[CHOOSE j \in 1..Len(names) :
                  /\ InText(names[j], text)
                  /\ \A h \in 1..(j - 1) : ~InText(names[h], text)]
    ELSE None

\* utils.extract_city_from_text.  Of the four patterns only "in\s+(word)"
\* can match a text of the vocabulary: it captures the word that follows
\* the first "in" that has a word after it.
cities == <<"tokyo", "london", "new york", "paris", "berlin", "mumbai",
            "delhi", "beijing", "shanghai", "dubai", "singapore", "sydney",
            "san francisco", "los angeles", "chicago", "toronto", "moscow",
            "rome", "madrid", "amsterdam", "vienna", "prague", "budapest">>

extract_city_from_text(text) ==
    LET city == FirstInText(cities, text)
        after == {j \in 1..(Len(text) - 1) : text[j] = "in"}
    IN  IF city # None THEN Literal[city]
        ELSE IF after # {}
        THEN Title[text[(CHOOSE j \in after : \A h \in after : j <= h) + 1]]
        ELSE "'London'"

\* utils.extract_query_from_text
languages == <<"python", "javascript", "java", "typescript", "go", "rust",
               "php", "swift", "c++", "c#">>
topics == <<"machine learning", "artificial intelligence", "ai", "ml",
            "deep learning", "web development", "data science", "blockchain",
            "iot", "cloud computing", "devops">>

extract_query_from_text(text) ==
    LET lang == FirstInText(languages, text)
        topic == FirstInText(topics, text)
    IN  IF lang # None THEN Literal[lang]
        ELSE IF topic # None THEN Literal[topic]
        ELSE IF InText("github", text) \/ InText("repo", text)
        THEN "'open source'"
        ELSE "'ai'"

\* ------------------------------------------------------------ result dicts
\* step: <<"absent", 0>>, <<"index", n>> (the value of step["step"]) or
\* <<"dict", p>> (the whole step dict, the one at position p of the plan).
\* cached = FALSE and tool = None stand for an absent key.
Result(success, data, subject, error, ts) ==
    [success |-> success, data |-> data, subject |-> subject, error |-> error,
     timestamp |-> ts, cached |-> FALSE, step |-> <<"absent", 0>>, tool |-> None]

\* a format_response that drops the error text
format_response_noError(data, subject, success, error, now) ==
    Result(success, data, subject, None, now)

\* utils.format_response
format_response(data, subject, success, error, now) ==
    Result(success, data, subject, error, now)

\* ------------------------------------------------------------------ state
VARIABLES
    parked,              \* the locals of a second call of execute_plan
    request,             \* the task text and what the local LLM answers to it
    OPENWEATHER_API_KEY, \* Config.OPENWEATHER_API_KEY is set (environment)
    clock,               \* time.time(), in ticks
    heap,                \* the result dicts ever created, by reference
    cache,               \* tool name -> (cache key -> [result, timestamp])
    execution_history,   \* ExecutorAgent.execution_history
    plan,                \* the plan execute_plan is walking
    results,             \* execute_plan's local list, as references
    cur,                 \* position in the plan of the step in progress
    attempt,             \* execute_step's loop variable
    dattempt,            \* retry_on_failure's loop variable
    pc,                  \* where the request is
    bodyRuns,            \* runs of the tool's execute body for this step
    liveCalls,           \* provider round trips made for this step
    lastRun,             \* what the last run of an execute body did
    lastFall,            \* the (tool, key) pairs whose last body run fell back
    plansRun,            \* execute_plan calls so far
    stepsRun,            \* steps of the plans handed to execute_plan so far
    report,              \* what verify_results returned for the last plan
    vresults             \* a result list handed to the Verifier on its own

vars == <<parked, request, OPENWEATHER_API_KEY, clock, heap, cache, execution_history, plan,
          results, cur, attempt, dattempt, pc, bodyRuns, liveCalls, lastRun,
          lastFall, plansRun, stepsRun, report, vresults>>

\* a registry that has a third tool
Tools_withEmail == {"github_tool", "weather_tool", "email_tool"}

Tools == {"github_tool", "weather_tool"}

\* ------------------------------------------------------------------ cache
\* get_cached_result with the age compared by <= instead of <
get_cached_result_le(tool, cache_key, now) ==
    IF cache_key \in DOMAIN cache[tool]
    THEN IF now - cache[tool][cache_key].timestamp <= cache_ttl * TicksPerSecond
         THEN cache[tool][cache_key].result
         ELSE 0
    ELSE 0

\* BaseTool.get_cached_result: the stored dict itself, or None
get_cached_result(tool, cache_key, now) ==
    IF cache_key \in DOMAIN cache[tool]
    THEN IF now - cache[tool][cache_key].timestamp < cache_ttl * TicksPerSecond
         THEN cache[tool][cache_key].result
         ELSE 0
    ELSE 0

\* BaseTool.cache_result
\* cache_result that keeps the timestamp of an entry it overwrites
cache_result_keepTimestamp(tool, cache_key, ref, now) ==
    [cache EXCEPT ![tool] =
        (cache_key :> [result |-> ref,
                       timestamp |-> IF cache_key \in DOMAIN cache[tool]
                                     THEN cache[tool][cache_key].timestamp
                                     ELSE now]) @@ cache[tool]]

cache_result(tool, cache_key, ref, now) ==
    [cache EXCEPT ![tool] =
        (cache_key :> [result |-> ref, timestamp |-> now]) @@ cache[tool]]

\* ------------------------------------------------------------- the tools
\* What one run of an execute body does: kind is "cached" (hit is the
\* reference served), "live", "error", "fallback" (obj is the fresh dict) or
\* "raise"; live tells whether a provider round trip was made; store whether
\* obj goes into the cache.
NoObj == Result(FALSE, None, None, None, 0)

Outcome(kind, live, store, hit, obj) ==
    [kind |-> kind, live |-> live, store |-> store, hit |-> hit, obj |-> obj,
     exc |-> None]

\* the body raises exc
Raises(exc, live) ==
    [kind |-> "raise", live |-> live, store |-> FALSE, hit |-> 0, obj |-> NoObj,
     exc |-> exc]

\* what the provider can answer to GitHubTool's search
GitHubResponses == {"200", "200_malformed", "403", "500", "exception"}

\* GitHubTool._get_fallback_data
GitHubFallback(query, now) ==
    format_response("fallback_data", query, TRUE, None, now)

\* GitHubTool.execute with the fallback dict stored in the cache too
GitHubExecute_cachesFallback(kwargs, resp, now) ==
    LET cache_key == get_cache_key(kwargs)
        cached_result == get_cached_result("github_tool", cache_key, now)
        query == Get(kwargs, "query", "'python'")
        per_page == Get(kwargs, "per_page", "5")
    IN  IF cached_result # 0
        THEN Outcome("cached", FALSE, FALSE, cached_result, NoObj)
        ELSE IF per_page \notin IntValues
        THEN Raises("TypeError", FALSE)
        ELSE IF resp = "200"
        THEN Outcome("live", TRUE, TRUE, 0,
                     format_response("github_api", query, TRUE, None, now))
        ELSE IF resp = "500"
        THEN Outcome("error", TRUE, FALSE, 0,
                     format_response(None, None, FALSE, "GitHub API error", now))
        ELSE Outcome("fallback", TRUE, TRUE, 0, GitHubFallback(query, now))

\* the body has reached its provider call: nothing is decided yet
Miss == Outcome("miss", FALSE, FALSE, 0, NoObj)

\* GitHubTool.execute up to its provider call: the cache lookup of lines
\* 24-28 and per_page of line 31
GitHubBeforeCall(kwargs, now) ==
    LET cache_key == get_cache_key(kwargs)
        cached_result == get_cached_result("github_tool", cache_key, now)
        per_page == Get(kwargs, "per_page", "5")
    IN  IF cached_result # 0
        THEN Outcome("cached", FALSE, FALSE, cached_result, NoObj)
        ELSE IF per_page \notin IntValues
        THEN \* min(str, 30) raises TypeError, outside the try
             Raises("TypeError", FALSE)
        ELSE Miss

\* GitHubTool.execute from requests.get on, lines 33-97
GitHubCall(kwargs, resp, now) ==
    LET query == Get(kwargs, "query", "'python'")
    IN  IF resp = "200"
        THEN Outcome("live", TRUE, TRUE, 0,
                     format_response("github_api", query, TRUE, None, now))
        ELSE IF resp = "500"
        THEN Outcome("error", TRUE, FALSE, 0,
                     format_response(None, None, FALSE, "GitHub API error", now))
        ELSE \* 403, a transport exception, or a KeyError while formatting
             Outcome("fallback", TRUE, FALSE, 0, GitHubFallback(query, now))

\* GitHubTool.execute, the body under the decorator
GitHubExecute(kwargs, resp, now) ==
    IF GitHubBeforeCall(kwargs, now) # Miss
    THEN GitHubBeforeCall(kwargs, now)
    ELSE GitHubCall(kwargs, resp, now)

\* what the providers can answer to WeatherTool: Open-Meteo answers both
\* calls with 200, or does not (status, no geocoding result), or a call
\* raises; then OpenWeatherMap, when it is asked, answers 200 or does not.
WeatherResponses == {"200", "no_result", "exception"}
OpenWeatherResponses == {"200", "failed"}

\* a fallback that is stored in the cache like a live answer
WeatherFallback_stored(city, live, now) ==
    IF city \in StrValues
    THEN Outcome("fallback", live, TRUE, 0,
                 format_response("fallback_data", city, TRUE, None, now))
    ELSE Raises("AttributeError", live)

\* WeatherTool._get_fallback_data: city.title() raises on a non-string
WeatherFallback(city, live, now) ==
    IF city \in StrValues
    THEN Outcome("fallback", live, FALSE, 0,
                 format_response("fallback_data", city, TRUE, None, now))
    ELSE Raises("AttributeError", live)

\* WeatherTool._get_openweather_data
get_openweather_data(city, resp2, now) ==
    IF resp2 = "200"
    THEN Outcome("live", TRUE, FALSE, 0,
                 format_response("openweathermap_api", city, TRUE, None, now))
    ELSE WeatherFallback(city, TRUE, now)

\* WeatherTool.execute without the cache lookup of its first lines
WeatherExecute_noLookup(kwargs, resp, resp2, now) ==
    LET city == Get(kwargs, "city", "'London'")
    IN  IF resp = "200"
        THEN Outcome("live", TRUE, TRUE, 0,
                     format_response("open-meteo_api", city, TRUE, None, now))
        ELSE IF resp = "no_result"
        THEN IF OPENWEATHER_API_KEY
             THEN get_openweather_data(city, resp2, now)
             ELSE WeatherFallback(city, TRUE, now)
        ELSE WeatherFallback(city, TRUE, now)

\* WeatherTool.execute up to its provider calls: the cache lookup of lines
\* 24-28
WeatherBeforeCall(kwargs, now) ==
    LET cache_key == get_cache_key(kwargs)
        cached_result == get_cached_result("weather_tool", cache_key, now)
    IN  IF cached_result # 0
        THEN Outcome("cached", FALSE, FALSE, cached_result, NoObj)
        ELSE Miss

\* WeatherTool.execute from the geocoding request on, lines 34-114
WeatherCall(kwargs, resp, resp2, now) ==
    LET city == Get(kwargs, "city", "'London'")
    IN  IF resp = "200"
        THEN Outcome("live", TRUE, TRUE, 0,
                     format_response("open-meteo_api", city, TRUE, None, now))
        ELSE IF resp = "no_result"
        THEN IF OPENWEATHER_API_KEY
             THEN get_openweather_data(city, resp2, now)
             ELSE WeatherFallback(city, TRUE, now)
        ELSE WeatherFallback(city, TRUE, now)

\* WeatherTool.execute, the body under the decorator
WeatherExecute(kwargs, resp, resp2, now) ==
    IF WeatherBeforeCall(kwargs, now) # Miss
    THEN WeatherBeforeCall(kwargs, now)
    ELSE WeatherCall(kwargs, resp, resp2, now)

\* BaseTool.validate_parameters, which accepts everything
validate_parameters_default(tool, kwargs) == TRUE

\* tool.validate_parameters
validate_parameters(tool, kwargs) ==
    IF tool = "github_tool" THEN Has(kwargs, "query") ELSE Has(kwargs, "city")

\* ------------------------------------------------------------ the inputs
\* The steps a plan is made of.  A step is a dict with optional keys and a
\* parameter mapping of any values: a well-formed step of each tool, a
\* github step whose per_page is a string, a step without its required
\* parameter, a step of an unregistered tool, and a step without its index.
StepPool == {
    [has_step |-> TRUE, tool |-> "github_tool",
     parameters |-> << <<"query", "'python'">>, <<"per_page", "5">> >>],
    [has_step |-> TRUE, tool |-> "github_tool",
     parameters |-> << <<"query", "'python'">>, <<"per_page", "'5'">> >>],
    [has_step |-> TRUE, tool |-> "weather_tool",
     parameters |-> << <<"city", "'London'">> >>],
    [has_step |-> TRUE, tool |-> "weather_tool", parameters |-> << >>],
    [has_step |-> TRUE, tool |-> "email_tool",
     parameters |-> << <<"query", "'python'">> >>],
    [has_step |-> FALSE, tool |-> "github_tool",
     parameters |-> << <<"query", "'python'">>, <<"per_page", "5">> >>] }

\* the step dict at position j: its index is its position, or 0 for a
\* missing "step" key
MakeStep(t, j) ==
    [step |-> IF t.has_step THEN j ELSE 0, tool |-> t.tool,
     parameters |-> t.parameters]

Plans ==
    UNION { { [j \in 1..n |-> MakeStep(f[j], j)] : f \in [1..n -> StepPool] }
            : n \in 0..MaxSteps }

\* lastRun before any body has run for the step.  Of a run it records the
\* tool and cache key, the time of the call, the cache entry found under the
\* key before the call (present, entry, stored_at), whether the previous run
\* for the key had fallen back, and what the run did (kind, live, stored)
\* and returned (ref).
NoRun == [tool |-> None, key |-> << >>, now |-> 0, present |-> FALSE,
          entry |-> 0, stored_at |-> 0, afterFallback |-> FALSE,
          kind |-> None, live |-> FALSE, stored |-> FALSE, ref |-> 0]

\* report before verify_results has returned
\* the locals of a call of execute_plan, and none
Locals(p, rs, c, att, datt, at, runs, calls, last) ==
    [plan |-> p, results |-> rs, cur |-> c, attempt |-> att, dattempt |-> datt,
     pc |-> at, bodyRuns |-> runs, liveCalls |-> calls, lastRun |-> last]

NoCall == Locals(<< >>, << >>, 1, 0, 0, "none", 0, 0, NoRun)

NoReport == [status |-> None, is_complete |-> FALSE, completeness_score |-> 0,
             missing_data |-> << >>, suggestions |-> << >>,
             issues |-> << >>, errors |-> << >>, final_suggestions |-> << >>,
             has_summary |-> FALSE, task_execution |-> FALSE, total_steps |-> 0,
             successful_steps |-> 0, failed_steps |-> 0]

\* ----------------------------------------------------------- the Planner
\* What a plan generator returns: a JSON object whose "plan" is absent, a
\* list of steps, or something that is not a list (a number); Unusable is
\* an answer of the local LLM that holds no JSON object.  A step of it may
\* be no dict, may lack "step" (0), "tool" (None) or "parameters".
RawStep(step, tool, has_parameters, parameters) ==
    [is_dict |-> TRUE, step |-> step, tool |-> tool,
     has_parameters |-> has_parameters, parameters |-> parameters]

NotADict == [RawStep(0, None, FALSE, << >>) EXCEPT !.is_dict = FALSE]

Generated(plan_kind, steps) == [plan_kind |-> plan_kind, steps |-> steps]

Unusable == Generated("unusable", << >>)

github_keywords == {"github", "repo", "repository", "code", "project",
                    "search", "find"}
weather_keywords == {"weather", "temp", "temperature", "forecast", "climate",
                     "humid"}

\* any(keyword in user_lower for keyword in keywords)
any_keyword(keywords, text) == \E k \in keywords : InText(k, text)

\* the two steps _generate_rule_based can append, and its default step
github_step(step_num, text) ==
    RawStep(step_num, "github_tool", TRUE,
            << <<"query", extract_query_from_text(text)>>, <<"per_page", "5">> >>)

weather_step(step_num, text) ==
    RawStep(step_num, "weather_tool", TRUE,
            << <<"city", extract_city_from_text(text)>> >>)

\* a default step for the other tool
default_step_weather ==
    RawStep(1, "weather_tool", TRUE, << <<"city", "'London'">> >>)

default_step ==
    RawStep(1, "github_tool", TRUE,
            << <<"query", "'artificial intelligence'">>, <<"per_page", "5">> >>)

\* the position of the first word that holds one of the keywords
FirstKeyword(keywords, text) ==
    CHOOSE j \in 1..Len(text) :
        /\ Substrings[text[j]] \cap keywords # {}
        /\ \A h \in 1..(j - 1) : Substrings[text[h]] \cap keywords = {}

\* a generator that emits the steps in the order of their keywords in the
\* text
generate_rule_based_textOrder(text) ==
    LET g == any_keyword(github_keywords, text)
        w == any_keyword(weather_keywords, text)
    IN  IF g /\ w
        THEN IF FirstKeyword(weather_keywords, text) < FirstKeyword(github_keywords, text)
             THEN Generated("list", <<weather_step(1, text), github_step(2, text)>>)
             ELSE Generated("list", <<github_step(1, text), weather_step(2, text)>>)
        ELSE IF g THEN Generated("list", <<github_step(1, text)>>)
        ELSE IF w THEN Generated("list", <<weather_step(1, text)>>)
        ELSE Generated("list", <<default_step>>)

\* LLMClient._generate_rule_based: the github check, then the weather
\* check, then the default step if the list is still empty
generate_rule_based(text) ==
    LET g == any_keyword(github_keywords, text)
        w == any_keyword(weather_keywords, text)
        first == IF g THEN <<github_step(1, text)>> ELSE << >>
        step_num == Len(first) + 1
        second == IF w THEN <<weather_step(step_num, text)>> ELSE << >>
    IN  IF first \o second = << >>
        THEN Generated("list", <<default_step>>)
        ELSE Generated("list", first \o second)

\* LLMClient._generate_with_ollama: the JSON object of the answer as it
\* is, or the rule-based plan when the answer holds none
generate_with_ollama(llm, text) ==
    IF llm # Unusable THEN llm ELSE generate_rule_based(text)

\* Config.USE_FREE_LLM
USE_FREE_LLM == TRUE

\* LLMClient.generate_plan
generate_plan(req) ==
    IF req.use_ollama /\ USE_FREE_LLM
    THEN generate_with_ollama(req.llm, req.text)
    ELSE generate_rule_based(req.text)

\* the tool _validate_plan leaves in a step
valid_tool(raw) ==
    IF raw.tool \in {"github_tool", "weather_tool"} THEN raw.tool
    ELSE "github_tool"

\* the keys _validate_plan fills in for a tool, with their defaults
Defaults(tool) ==
    IF tool = "github_tool"
    THEN << <<"query", "'python'">>, <<"per_page", "5">> >>
    ELSE << <<"city", "'London'">> >>

\* the defaults a step's parameters lack
Missing(raw) ==
    LET parameters == IF raw.has_parameters THEN raw.parameters ELSE << >>
    IN  SelectSeq(Defaults(valid_tool(raw)),
                  LAMBDA d : ~Has(parameters, d[1]))

\* the body of _validate_plan's loop raises TypeError for a step that is
\* no dict (step["step"] = ...) and for parameters that are no dict when a
\* default has to be stored in them
step_raises(raw) ==
    \/ ~raw.is_dict
    \/ /\ raw.has_parameters
       /\ ~is_mapping(raw.parameters)
       /\ Missing(raw) # << >>

\* a loop body that leaves a step's own index alone when it has one
validate_step_keepIndex(raw, i) ==
    [step |-> IF raw.step # 0 THEN raw.step ELSE i,
     tool |-> valid_tool(raw),
     parameters |->
        (IF raw.has_parameters THEN raw.parameters ELSE << >>) \o Missing(raw)]

\* the body of _validate_plan's loop for the step at position i (1-based)
validate_step(raw, i) ==
    [step |-> i,
     tool |-> valid_tool(raw),
     parameters |->
        (IF raw.has_parameters THEN raw.parameters ELSE << >>) \o Missing(raw)]

\* _validate_plan raises: plan["plan"] cannot be iterated, or a step raises
validate_plan_raises(generated) ==
    \/ generated.plan_kind = "number"
    \/ /\ generated.plan_kind = "list"
       /\ \E j \in 1..Len(generated.steps) : step_raises(generated.steps[j])

\* PlannerAgent._validate_plan when it returns
validate_plan(generated) ==
    IF generated.plan_kind = "absent" THEN << >>
    ELSE [j \in 1..Len(generated.steps) |-> validate_step(generated.steps[j], j)]

\* PlannerAgent._create_fallback_plan
create_fallback_plan ==
    << [step |-> 1, tool |-> "github_tool",
        parameters |-> << <<"query", "'python'">>, <<"per_page", "5">> >>] >>

\* PlannerAgent.create_plan: the list under "plan" of the dict it returns
create_plan(req) ==
    LET generated == generate_plan(req)
    IN  IF validate_plan_raises(generated) THEN create_fallback_plan
        ELSE validate_plan(generated)

\* the path a request takes through create_plan
planning_path(req) ==
    IF validate_plan_raises(generate_plan(req)) THEN "fallback"
    ELSE IF req.use_ollama /\ USE_FREE_LLM /\ req.llm # Unusable THEN "ollama"
    ELSE "rule"

\* the task texts
Texts == UNION {[1..n -> Vocabulary] : n \in 0..MaxWords}

\* steps the local LLM may put in its answer: a wrong index; no index and
\* no parameters; an unknown tool with empty parameters; per_page as a
\* string; a step that is a string; parameter names in a list; a step
\* that names per_page only, so that its query is stored after it
RawStepPool == {
    RawStep(2, "github_tool", TRUE, << <<"per_page", "5">> >>),
    RawStep(7, "github_tool", TRUE,
            << <<"query", "'python'">>, <<"per_page", "5">> >>),
    RawStep(0, "weather_tool", FALSE, << >>),
    RawStep(1, "email_tool", TRUE, << >>),
    RawStep(1, "github_tool", TRUE,
            << <<"query", "'python'">>, <<"per_page", "'5'">> >>),
    NotADict,
    RawStep(1, "github_tool", TRUE,
            << <<"query", ListItem>>, <<"per_page", ListItem>> >>) }

\* the answers of the local LLM
LLMOutputs ==
    {Unusable, Generated("absent", << >>), Generated("number", << >>)}
    \cup {Generated("list", s) :
             s \in UNION {[1..n -> RawStepPool] : n \in 0..MaxRawSteps}}

\* a request: the text, whether `ollama --version` answered when the
\* client was built, and what the local LLM would answer.  A usable
\* answer replaces the text's plan, so two texts stand for all with it.
Requests ==
    {[text |-> t, use_ollama |-> FALSE, llm |-> Unusable] : t \in Texts}
    \cup {[text |-> t, use_ollama |-> TRUE, llm |-> l] :
             t \in {<<"hello">>, <<"weather", "find">>}, l \in LLMOutputs}

NoRequest == [text |-> << >>, use_ollama |-> FALSE, llm |-> Unusable]

\* ---------------------------------------------------------- the Executor
\* the dict execute_step builds itself for a step it gives up on
FailureResult(error, pos, tool) ==
    [Result(FALSE, None, None, error, 0) EXCEPT
        !.step = <<"dict", pos>>, !.tool = tool]

\* an except clause that names KeyError alone
except_KeyError(exc) == exc = "KeyError"

\* `except Exception as e` of execute_step: the exceptions it catches
except_Exception(exc) == exc \in {"TypeError", "AttributeError", "KeyError"}

\* the except block of execute_step, lines 61-71: sleep and go round
\* again, or give up with a failure result
on_exception(att) ==
    IF att < MAX_RETRIES - 1 THEN "sleep" ELSE "give_up"

\* what execute_step does with an exception raised inside its try block
Handle(exc) ==
    IF ~except_Exception(exc)
    THEN /\ pc' = "raised"
         /\ UNCHANGED <<heap, results>>
    ELSE IF on_exception(attempt) = "sleep"
    THEN /\ pc' = "retry_sleep"
         /\ UNCHANGED <<heap, results>>
    ELSE /\ heap' = Append(heap,
                FailureResult("Failed after attempts", cur, plan[cur].tool))
         /\ results' = Append(results, Len(heap) + 1)
         /\ pc' = "pace"

\* execute_plan is called with a plan
StartPlan(p) ==
    /\ pc = "idle"
    /\ plansRun < MaxPlans
    /\ stepsRun + Len(p) <= MaxTotalSteps
    /\ plansRun' = plansRun + 1
    /\ stepsRun' = stepsRun + Len(p)
    /\ plan' = p
    /\ results' = << >>
    /\ cur' = 1
    /\ pc' = IF Len(p) = 0 THEN "verify" ELSE "step"
    /\ attempt' = 0 /\ dattempt' = 0 /\ bodyRuns' = 0 /\ liveCalls' = 0
    /\ lastRun' = NoRun
    /\ report' = NoReport
    /\ UNCHANGED <<parked, request, OPENWEATHER_API_KEY, clock, heap, cache, execution_history,
                   lastFall, vresults>>

\* execute_step up to its retry loop: tool lookup and validation
ExecuteStep ==
    /\ pc = "step"
    /\ LET step == plan[cur] IN
       IF step.tool \notin Tools
       THEN /\ heap' = Append(heap, FailureResult("Tool not found", cur, None))
            /\ results' = Append(results, Len(heap) + 1)
            /\ pc' = "pace"
       ELSE IF ~is_mapping(step.parameters)
       THEN \* validate_parameters(**parameters) raises TypeError, outside
            \* the try block
            /\ pc' = "raised"
            /\ UNCHANGED <<heap, results>>
       ELSE IF ~validate_parameters(step.tool, step.parameters)
       THEN /\ heap' = Append(heap, FailureResult("Invalid parameters", cur, None))
            /\ results' = Append(results, Len(heap) + 1)
            /\ pc' = "pace"
       ELSE /\ pc' = "attempt"
            /\ UNCHANGED <<heap, results>>
    /\ attempt' = 0 /\ dattempt' = 0 /\ bodyRuns' = 0 /\ liveCalls' = 0
    /\ lastRun' = NoRun
    /\ UNCHANGED <<parked, request, OPENWEATHER_API_KEY, clock, cache, execution_history, plan,
                   cur, lastFall, plansRun, stepsRun, report, vresults>>

\* one round of the retry loop, up to the call of tool.execute: the print
\* reads step['step'] and raises KeyError when the key is missing
Attempt ==
    /\ pc = "attempt"
    /\ IF plan[cur].step = 0
       THEN Handle("KeyError")
       ELSE /\ pc' = "body"
            /\ UNCHANGED <<heap, results>>
    /\ dattempt' = 0
    /\ UNCHANGED <<parked, request, OPENWEATHER_API_KEY, clock, cache, execution_history, plan,
                   cur, attempt, bodyRuns, liveCalls, lastRun, lastFall,
                   plansRun, stepsRun, report, vresults>>

\* tool.execute(**parameters), one run of the body
ToolExecute(tool, kwargs, resp, resp2, now) ==
    IF tool = "github_tool"
    THEN GitHubExecute(kwargs, resp, now)
    ELSE WeatherExecute(kwargs, resp, resp2, now)

\* the answers the providers of a tool can give to one run of the body
Responses(tool) ==
    IF tool = "github_tool"
    THEN GitHubResponses \X {"failed"}
    ELSE WeatherResponses \X OpenWeatherResponses

\* retry_on_failure's except block: re-raise on the last attempt, else sleep
decorator_reraises(att) == att = max_retries - 1

\* What the decorator and execute_step do with the return value or the
\* exception of one run of the tool's execute body, whose outcome is o
AfterBody(o) ==
    LET step == plan[cur]
        tool == step.tool
        key == get_cache_key(step.parameters)
        present == key \in DOMAIN cache[tool]
        ref == IF o.kind = "cached" THEN o.hit ELSE Len(heap) + 1
        heap1 == IF o.kind = "cached"
                 THEN [heap EXCEPT ![ref].cached = TRUE]
                 ELSE Append(heap, o.obj)
    IN
    /\ bodyRuns' = bodyRuns + 1
    /\ liveCalls' = liveCalls + (IF o.live THEN 1 ELSE 0)
    /\ lastRun' = [tool |-> tool, key |-> key, now |-> clock,
                   present |-> present,
                   entry |-> IF present THEN cache[tool][key].result ELSE 0,
                   stored_at |-> IF present THEN cache[tool][key].timestamp ELSE 0,
                   afterFallback |-> <<tool, key>> \in lastFall,
                   kind |-> o.kind, live |-> o.live, stored |-> o.store,
                   ref |-> IF o.kind = "raise" THEN 0 ELSE ref]
    /\ IF o.kind = "raise"
       THEN /\ IF decorator_reraises(dattempt)
               THEN Handle(o.exc)
               ELSE /\ pc' = "decorator_sleep"
                    /\ UNCHANGED <<heap, results>>
            /\ UNCHANGED <<cache, execution_history, lastFall>>
       ELSE \* the body returned: lines 48-59 of execute_step
            /\ heap' = [heap1 EXCEPT ![ref].step = <<"index", step.step>>,
                                     ![ref].tool = tool]
            /\ cache' = IF o.store THEN cache_result(tool, key, ref, clock)
                        ELSE cache
            /\ execution_history' = Append(execution_history,
                   [step |-> step.step, tool |-> tool, result |-> ref,
                    timestamp |-> clock])
            /\ results' = Append(results, ref)
            /\ lastFall' = IF o.kind = "fallback"
                           THEN lastFall \cup {<<tool, key>>}
                           ELSE lastFall \ {<<tool, key>>}
            /\ pc' = "pace"

\* One run of the tool's execute body under retry_on_failure, from the
\* cache lookup to the return or the exception
Body ==
    /\ pc = "body"
    /\ \E rr \in Responses(plan[cur].tool) :
          AfterBody(ToolExecute(plan[cur].tool, plan[cur].parameters,
                                rr[1], rr[2], clock))
    /\ UNCHANGED <<parked, request, OPENWEATHER_API_KEY, clock, plan, cur, attempt,
                   dattempt, plansRun, stepsRun, report, vresults>>

\* retry_on_failure: time.sleep(delay * (attempt + 1)), then the next round
DecoratorSleep ==
    /\ pc = "decorator_sleep"
    /\ clock' = clock + delay * (dattempt + 1) * TicksPerSecond
    /\ dattempt' = dattempt + 1
    /\ pc' = "body"
    /\ UNCHANGED <<parked, request, OPENWEATHER_API_KEY, heap, cache, execution_history, plan,
                   results, cur, attempt, bodyRuns, liveCalls, lastRun,
                   lastFall, plansRun, stepsRun, report, vresults>>

\* execute_step: time.sleep(Config.RETRY_DELAY), then the next round
RetrySleep ==
    /\ pc = "retry_sleep"
    /\ clock' = clock + RETRY_DELAY * TicksPerSecond
    /\ attempt' = attempt + 1
    /\ pc' = "attempt"
    /\ UNCHANGED <<parked, request, OPENWEATHER_API_KEY, heap, cache, execution_history, plan,
                   results, cur, dattempt, bodyRuns, liveCalls, lastRun,
                   lastFall, plansRun, stepsRun, report, vresults>>

\* execute_plan with the pacing sleep taken after successful steps only
Pace_afterSuccessOnly ==
    /\ pc = "pace"
    /\ clock' = IF heap[results[cur]].success THEN clock + PaceDelay ELSE clock
    /\ IF cur < Len(plan)
       THEN cur' = cur + 1 /\ pc' = "step"
       ELSE cur' = cur /\ pc' = "verify"
    /\ UNCHANGED <<parked, request, OPENWEATHER_API_KEY, heap, cache, execution_history, plan,
                   results, attempt, dattempt, bodyRuns, liveCalls, lastRun,
                   lastFall, plansRun, stepsRun, report, vresults>>

\* execute_plan: time.sleep(0.5) after the step, then the next step or return
Pace ==
    /\ pc = "pace"
    /\ clock' = clock + PaceDelay
    /\ IF cur < Len(plan)
       THEN cur' = cur + 1 /\ pc' = "step"
       ELSE cur' = cur /\ pc' = "verify"
    /\ UNCHANGED <<parked, request, OPENWEATHER_API_KEY, heap, cache, execution_history, plan,
                   results, attempt, dattempt, bodyRuns, liveCalls, lastRun,
                   lastFall, plansRun, stepsRun, report, vresults>>

\* ExecutorAgent.get_execution_summary
get_execution_summary ==
    LET succeeded(h) == heap[h.result].success
        entries == 1..Len(execution_history)
    IN  [total_executions |-> Len(execution_history),
         successful |-> Cardinality({j \in entries : succeeded(execution_history[j])}),
         failed |-> Cardinality({j \in entries : ~succeeded(execution_history[j])}),
         tools_used |-> {execution_history[j].tool : j \in entries}]

\* ---------------------------------------------------------- the Verifier
\* [r for r in results if r.get("success", False)] and its complement
successful_results(rs) == SelectSeq(rs, LAMBDA r : r.success)
failed_results(rs) == SelectSeq(rs, LAMBDA r : ~r.success)

\* the completeness expression with the full score tested against 1
completeness_one(successful, total) ==
    IF total > 0 /\ successful = 1 THEN 100
    ELSE IF successful > 0 THEN 50 ELSE 0

\* the completeness expression of LLMClient.verify_results
completeness(successful, total) ==
    IF total > 0 /\ successful = total THEN 100
    ELSE IF successful > 0 THEN 50 ELSE 0

\* LLMClient.verify_results
llm_verify_results(rs) ==
    LET successful == Len(successful_results(rs))
        total == Len(rs)
    IN  [is_complete |-> successful = total,
         completeness_score |-> completeness(successful, total),
         missing_data |-> << >>,
         suggestions |-> IF successful = total
                         THEN <<"All requirements satisfied">>
                         ELSE <<"Some steps failed">>]

\* _handle_all_failed with the error texts of the failed results left out
handle_all_failed_noErrors(failed) ==
    [status |-> "failed",
     is_complete |-> FALSE,
     completeness_score |-> 0,
     missing_data |-> <<"All execution steps failed">>,
     suggestions |-> <<"Check API availability", "Verify parameters",
                       "Try different tools">>,
     issues |-> << >>,
     errors |-> << >>,
     final_suggestions |-> <<"Try rephrasing your request",
                             "Check if the requested information is available",
                             "Try a simpler request first">>,
     has_summary |-> FALSE, task_execution |-> FALSE,
     total_steps |-> 0, successful_steps |-> 0, failed_steps |-> 0]

\* VerifierAgent._handle_all_failed: no summary, no task_execution
handle_all_failed(failed) ==
    [status |-> "failed",
     is_complete |-> FALSE,
     completeness_score |-> 0,
     missing_data |-> <<"All execution steps failed">>,
     suggestions |-> <<"Check API availability", "Verify parameters",
                       "Try different tools">>,
     issues |-> << >>,
     errors |-> [j \in 1..Len(failed) |-> failed[j].error],
     final_suggestions |-> <<"Try rephrasing your request",
                             "Check if the requested information is available",
                             "Try a simpler request first">>,
     has_summary |-> FALSE, task_execution |-> FALSE,
     total_steps |-> 0, successful_steps |-> 0, failed_steps |-> 0]

\* the status taken from a score threshold instead of is_complete
task_status_threshold(verification) ==
    IF verification.completeness_score >= 50 THEN "completed" ELSE "partial"

\* the status expression of VerifierAgent._build_final_output
task_status(verification) ==
    IF verification.is_complete THEN "completed" ELSE "partial"

\* VerifierAgent._build_final_output and the dict verify_results returns
build_final_output(nsteps, successful, failed, verification) ==
    [status |-> task_status(verification),
     is_complete |-> verification.is_complete,
     completeness_score |-> verification.completeness_score,
     missing_data |-> verification.missing_data,
     suggestions |-> verification.suggestions,
     issues |-> verification.missing_data,
     errors |-> << >>,
     final_suggestions |-> verification.suggestions,
     has_summary |-> TRUE, task_execution |-> TRUE,
     total_steps |-> nsteps,
     successful_steps |-> Len(successful),
     failed_steps |-> Len(failed)]

\* verify_results that takes the all-failed path only for a failed result
verify_results_someFailed(nsteps, rs) ==
    IF Len(successful_results(rs)) = 0 /\ Len(failed_results(rs)) > 0
    THEN handle_all_failed(failed_results(rs))
    ELSE build_final_output(nsteps, successful_results(rs), failed_results(rs),
                            llm_verify_results(rs))

\* VerifierAgent.verify_results; nsteps is len(plan["plan"])
verify_results(nsteps, rs) ==
    IF Len(successful_results(rs)) = 0
    THEN handle_all_failed(failed_results(rs))
    ELSE build_final_output(nsteps, successful_results(rs), failed_results(rs),
                            llm_verify_results(rs))

\* the dicts the references of a result list stand for
Deref(refs) == [j \in 1..Len(refs) |-> heap[refs[j]]]

\* process_task after execute_plan has returned: verify_results
Verify ==
    /\ pc = "verify"
    /\ report' = verify_results(Len(plan), Deref(results))
    /\ vresults' = Deref(results)
    /\ pc' = "idle"
    /\ UNCHANGED <<parked, request, OPENWEATHER_API_KEY, clock, heap, cache, execution_history,
                   plan, results, cur, attempt, dattempt, bodyRuns, liveCalls,
                   lastRun, lastFall, plansRun, stepsRun>>

\* time passes between two requests: just under the time to live of an
\* entry stored by the last step (which the pacing delay has aged by one
\* tick), or exactly that long
Deltas == {cache_ttl * TicksPerSecond - 2, cache_ttl * TicksPerSecond - 1}

Tick ==
    /\ pc = "idle"
    /\ \E d \in Deltas :
          /\ clock + d <= MaxTime
          /\ clock' = clock + d
    /\ UNCHANGED <<parked, request, OPENWEATHER_API_KEY, heap, cache, execution_history, plan,
                   results, cur, attempt, dattempt, pc, bodyRuns, liveCalls,
                   lastRun, lastFall, plansRun, stepsRun, report, vresults>>

Init ==
    /\ parked = NoCall
    /\ request = NoRequest
    /\ OPENWEATHER_API_KEY \in BOOLEAN
    /\ clock = 0
    /\ heap = << >>
    /\ cache = [t \in Tools |-> << >>]
    /\ execution_history = << >>
    /\ plan = << >>
    /\ results = << >>
    /\ cur = 1
    /\ attempt = 0
    /\ dattempt = 0
    /\ pc = "idle"
    /\ bodyRuns = 0
    /\ liveCalls = 0
    /\ lastRun = NoRun
    /\ lastFall = {}
    /\ plansRun = 0
    /\ stepsRun = 0
    /\ report = NoReport
    /\ vresults = << >>

Next ==
    \/ \E p \in Plans : StartPlan(p)
    \/ ExecuteStep
    \/ Attempt
    \/ Body
    \/ DecoratorSleep
    \/ RetrySleep
    \/ Pace
    \/ Verify
    \/ Tick

Spec == Init /\ [][Next]_vars

\* ------------------------------------------- the Verifier on its own
\* result dicts as execute_plan hands them over: a live and a fallback
\* success, a failure outcome returned by a tool, a failure built by
\* execute_step
ResultPool == {
    [format_response("github_api", "'python'", TRUE, None, 0) EXCEPT
        !.step = <<"index", 1>>, !.tool = "github_tool"],
    [format_response("fallback_data", "'London'", TRUE, None, 0) EXCEPT
        !.step = <<"index", 1>>, !.tool = "weather_tool"],
    [format_response(None, None, FALSE, "GitHub API error", 0) EXCEPT
        !.step = <<"index", 1>>, !.tool = "github_tool"],
    FailureResult("Tool not found", 1, None) }

ResultLists == UNION { [1..n -> ResultPool] : n \in 0..MaxResults }

InitVerifier ==
    /\ parked = NoCall
    /\ request = NoRequest
    /\ OPENWEATHER_API_KEY = FALSE
    /\ clock = 0
    /\ heap = << >>
    /\ cache = [t \in Tools |-> << >>]
    /\ execution_history = << >>
    /\ plan = << >>
    /\ results = << >>
    /\ cur = 1
    /\ attempt = 0
    /\ dattempt = 0
    /\ pc = "verifier"
    /\ bodyRuns = 0
    /\ liveCalls = 0
    /\ lastRun = NoRun
    /\ lastFall = {}
    /\ plansRun = 0
    /\ stepsRun = 0
    /\ report = NoReport
    /\ vresults \in ResultLists

\* verify_results on a result list of a plan with as many steps
VerifyResults ==
    /\ pc = "verifier"
    /\ report' = verify_results(Len(vresults), vresults)
    /\ pc' = "verified"
    /\ UNCHANGED <<parked, request, OPENWEATHER_API_KEY, clock, heap, cache, execution_history,
                   plan, results, cur, attempt, dattempt, bodyRuns, liveCalls,
                   lastRun, lastFall, plansRun, stepsRun, vresults>>

NextVerifier == VerifyResults

SpecVerifier == InitVerifier /\ [][NextVerifier]_vars

\* ------------------------------------------------- process_task as a whole
\* the Planner's part of process_task: the plan of the request goes to
\* execute_plan
CreatePlan ==
    /\ pc = "planner"
    /\ plan' = create_plan(request)
    /\ results' = << >>
    /\ cur' = 1
    /\ pc' = IF create_plan(request) = << >> THEN "verify" ELSE "step"
    /\ plansRun' = plansRun + 1
    /\ stepsRun' = stepsRun + Len(create_plan(request))
    /\ UNCHANGED <<parked, request, OPENWEATHER_API_KEY, clock, heap, cache,
                   execution_history, attempt, dattempt, bodyRuns, liveCalls,
                   lastRun, lastFall, report, vresults>>

\* run_cli in single task mode after process_task has returned:
\* display_results reads final_output["task_execution"]; a KeyError lands
\* in the except block, which prints the error and exits with status 1
DisplayResults ==
    /\ pc = "idle"
    /\ pc' = IF report.task_execution THEN "complete" ELSE "fault"
    /\ UNCHANGED <<parked, request, OPENWEATHER_API_KEY, clock, heap, cache,
                   execution_history, plan, results, cur, attempt, dattempt,
                   bodyRuns, liveCalls, lastRun, lastFall, plansRun, stepsRun,
                   report, vresults>>

InitPipeline ==
    /\ parked = NoCall
    /\ request \in Requests
    /\ OPENWEATHER_API_KEY \in BOOLEAN
    /\ clock = 0
    /\ heap = << >>
    /\ cache = [t \in Tools |-> << >>]
    /\ execution_history = << >>
    /\ plan = << >>
    /\ results = << >>
    /\ cur = 1
    /\ attempt = 0
    /\ dattempt = 0
    /\ pc = "planner"
    /\ bodyRuns = 0
    /\ liveCalls = 0
    /\ lastRun = NoRun
    /\ lastFall = {}
    /\ plansRun = 0
    /\ stepsRun = 0
    /\ report = NoReport
    /\ vresults = << >>

NextPipeline ==
    \/ CreatePlan
    \/ ExecuteStep
    \/ Attempt
    \/ Body
    \/ DecoratorSleep
    \/ RetrySleep
    \/ Pace
    \/ Verify
    \/ DisplayResults

SpecPipeline == InitPipeline /\ [][NextPipeline]_vars

\* ---------------------------------------- two calls of execute_plan at once
\* Two requests are in execute_plan on the one ExecutorAgent: the tools
\* with their caches, execution_history and the clock are shared, the rest
\* is local to each call.  The variables plan .. lastRun hold the locals of
\* the call that is running, parked those of the other.  A call gives way
\* where it blocks: before its first step, in a provider call, in a sleep,
\* and when it has returned.  Served one after the other, as api_server.py does when it
\* calls process_task inside its async handler, the calls run without a
\* Switch in between; every such run is a run of this specification too.
ToolBeforeCall(tool, kwargs, now) ==
    IF tool = "github_tool"
    THEN GitHubBeforeCall(kwargs, now)
    ELSE WeatherBeforeCall(kwargs, now)

ToolCall(tool, kwargs, resp, resp2, now) ==
    IF tool = "github_tool"
    THEN GitHubCall(kwargs, resp, now)
    ELSE WeatherCall(kwargs, resp, resp2, now)

\* the execute body up to its provider call: a hit or an exception ends it
Lookup ==
    /\ pc = "body"
    /\ LET before == ToolBeforeCall(plan[cur].tool, plan[cur].parameters, clock)
       IN  IF before = Miss
           THEN /\ pc' = "live"
                /\ UNCHANGED <<heap, cache, execution_history, results,
                               bodyRuns, liveCalls, lastRun, lastFall>>
           ELSE AfterBody(before)
    /\ UNCHANGED <<parked, request, OPENWEATHER_API_KEY, clock, plan, cur, attempt,
                   dattempt, plansRun, stepsRun, report, vresults>>

\* the provider has answered, or failed to: the rest of the execute body
LiveReturn ==
    /\ pc = "live"
    /\ \E rr \in Responses(plan[cur].tool) :
          AfterBody(ToolCall(plan[cur].tool, plan[cur].parameters,
                             rr[1], rr[2], clock))
    /\ UNCHANGED <<parked, request, OPENWEATHER_API_KEY, clock, plan, cur, attempt,
                   dattempt, plansRun, stepsRun, report, vresults>>

\* where a call of execute_plan is when it blocks or has not begun: the
\* provider call, the three sleeps; "step" before the first step, "verify"
\* after the return
Blocking == {"live", "decorator_sleep", "retry_sleep", "pace", "verify"}

\* a context switch that leaves the position in the plan where it is, as
\* if the loop variable were an attribute of the agent
Switch_sharedPosition ==
    /\ parked.pc # "none"
    /\ pc \in Blocking \/ (pc = "step" /\ cur = 1)
    /\ parked' = Locals(plan, results, cur, attempt, dattempt, pc, bodyRuns,
                        liveCalls, lastRun)
    /\ plan' = parked.plan /\ results' = parked.results /\ cur' = cur
    /\ attempt' = parked.attempt /\ dattempt' = parked.dattempt
    /\ pc' = parked.pc /\ bodyRuns' = parked.bodyRuns
    /\ liveCalls' = parked.liveCalls /\ lastRun' = parked.lastRun
    /\ UNCHANGED <<request, OPENWEATHER_API_KEY, clock, heap, cache,
                   execution_history, lastFall, plansRun, stepsRun, report,
                   vresults>>

\* the other call goes on: each call keeps its own locals
Switch ==
    /\ parked.pc # "none"
    /\ pc \in Blocking \/ (pc = "step" /\ cur = 1)
    /\ parked' = Locals(plan, results, cur, attempt, dattempt, pc, bodyRuns,
                        liveCalls, lastRun)
    /\ plan' = parked.plan /\ results' = parked.results /\ cur' = parked.cur
    /\ attempt' = parked.attempt /\ dattempt' = parked.dattempt
    /\ pc' = parked.pc /\ bodyRuns' = parked.bodyRuns
    /\ liveCalls' = parked.liveCalls /\ lastRun' = parked.lastRun
    /\ UNCHANGED <<request, OPENWEATHER_API_KEY, clock, heap, cache,
                   execution_history, lastFall, plansRun, stepsRun, report,
                   vresults>>

\* the plans of the two calls: searches and weather reports, and one plan
\* whose search raises on every attempt
CallStepPool == {
    [has_step |-> TRUE, tool |-> "github_tool",
     parameters |-> << <<"query", "'python'">>, <<"per_page", "5">> >>],
    [has_step |-> TRUE, tool |-> "weather_tool",
     parameters |-> << <<"city", "'London'">> >>] }

RaisingStep ==
    [has_step |-> TRUE, tool |-> "github_tool",
     parameters |-> << <<"query", "'python'">>, <<"per_page", "'5'">> >>]

CallPlans ==
    UNION {{[j \in 1..n |-> MakeStep(f[j], j)] : f \in [1..n -> CallStepPool]} :
             n \in 1..(MaxCallSteps - 1)}
    \cup {<<MakeStep(RaisingStep, 1)>>}

InitCalls ==
    /\ parked \in {Locals(p, << >>, 1, 0, 0, "step", 0, 0, NoRun) : p \in CallPlans}
    /\ request = NoRequest
    /\ OPENWEATHER_API_KEY = FALSE
    /\ clock = 0
    /\ heap = << >>
    /\ cache = [t \in Tools |-> << >>]
    /\ execution_history = << >>
    /\ plan \in CallPlans
    /\ Len(plan) + Len(parked.plan) <= MaxCallSteps
    /\ results = << >>
    /\ cur = 1
    /\ attempt = 0
    /\ dattempt = 0
    /\ pc = "step"
    /\ bodyRuns = 0
    /\ liveCalls = 0
    /\ lastRun = NoRun
    /\ lastFall = {}
    /\ plansRun = 0
    /\ stepsRun = 0
    /\ report = NoReport
    /\ vresults = << >>

NextCalls ==
    \/ ExecuteStep
    \/ Attempt
    \/ Lookup
    \/ LiveReturn
    \/ DecoratorSleep
    \/ RetrySleep
    \/ Pace
    \/ Switch

SpecCalls == InitCalls /\ [][NextCalls]_vars

\* ================================================================ claims
TTL == cache_ttl * TicksPerSecond

\* the age, at the last body run, of the entry found under its key
Age == lastRun.now - lastRun.stored_at

\* the step in progress has its result: execute_step has returned
StepDone == pc = "pace"

\* C1: for any Step, the tool's execute body runs at most MAX_RETRIES times
\* before the Executor accepts an outcome for the Step, the re-runs of the
\* retry_on_failure decorator included.
C1_RetryBound == bodyRuns <= MAX_RETRIES

\* C2: a tool returns a fallback outcome only after the retry limit of
\* live attempts is exhausted; none is produced while live attempts remain.
C2_FallbackAfterRetries ==
    lastRun.kind = "fallback" => liveCalls >= MAX_RETRIES

C4_CacheFreshness ==
    (lastRun.kind # None /\ lastRun.present) =>
        /\ Age < TTL => (lastRun.kind = "cached" /\ lastRun.ref = lastRun.entry)
        /\ Age >= TTL => lastRun.kind \in {"live", "error", "fallback", "raise"}

C4_Witness ==
    /\ lastRun.present
    /\ Age = TTL
    /\ lastRun.kind = "live"

\* C5: a fallback outcome is never written to a cache, and the execute
\* call that follows a fallback for the same fingerprint is not served
\* from the cache but makes the live provider call again.
C5_FallbackNeverCached ==
    /\ \A t \in Tools : \A k \in DOMAIN cache[t] :
          heap[cache[t][k].result].data # "fallback_data"
    /\ lastRun.afterFallback => (lastRun.kind # "cached" /\ lastRun.live)

C5_Witness ==
    /\ lastRun.afterFallback
    /\ lastRun.tool = "github_tool"
    /\ lastRun.kind = "live"
    /\ plansRun = 1

\* C6: when a non-expired entry exists for the fingerprint, execute
\* returns that entry's payload marked as cached and makes no live call.
C6_CacheHitNoLiveCall ==
    (lastRun.kind # None /\ lastRun.present /\ Age < TTL) =>
        /\ ~lastRun.live
        /\ liveCalls = 0
        /\ lastRun.ref = lastRun.entry
        /\ heap[lastRun.ref].cached
        /\ cache[lastRun.tool][lastRun.key].result = lastRun.entry
        /\ cache[lastRun.tool][lastRun.key].timestamp = lastRun.stored_at

C6_Witness ==
    /\ lastRun.tool = "weather_tool"
    /\ lastRun.present
    /\ Age = TTL - 1
    /\ lastRun.kind = "cached"

\* C7: every successful live provider result is stored in the tool's cache
\* before it is returned, on every live path of every tool.
C7_LiveResultCached ==
    lastRun.kind = "live" =>
        /\ lastRun.key \in DOMAIN cache[lastRun.tool]
        /\ cache[lastRun.tool][lastRun.key].result = lastRun.ref

\* 100 * successful / total rounded to one decimal place, in tenths
ExpectedScore10(successful, total) ==
    IF total = 0 THEN 0 ELSE (2000 * successful + total) \div (2 * total)

NSuccessful == Cardinality({j \in 1..Len(vresults) : vresults[j].success})
NTotal == Len(vresults)

\* C8: completeness_score equals 100 x successes / total rounded to one
\* decimal place, and 0 for the empty list.
C8_ScoreProportional ==
    pc = "verified" =>
        report.completeness_score * 10 = ExpectedScore10(NSuccessful, NTotal)

\* C9 as stated: status is "completed" exactly when every result succeeded,
\* "partial" exactly when some but not all did, "failed" exactly when none.
C9_StatusAsStated ==
    pc = "verified" =>
        /\ report.status = "completed" <=> NSuccessful = NTotal
        /\ report.status = "partial" <=> (0 < NSuccessful /\ NSuccessful < NTotal)
        /\ report.status = "failed" <=> NSuccessful = 0

\* C9 amended: status is "completed" exactly when the list is not empty
\* and every result succeeded, "partial" exactly when some but not all
\* did, "failed" exactly when none did (the empty list included).
C9_Status ==
    pc = "verified" =>
        /\ report.status = "completed" <=> (NTotal > 0 /\ NSuccessful = NTotal)
        /\ report.status = "partial" <=> (0 < NSuccessful /\ NSuccessful < NTotal)
        /\ report.status = "failed" <=> NSuccessful = 0

C9_Witness ==
    /\ pc = "verified"
    /\ report.status = "partial"
    /\ \E j \in 1..Len(vresults) : vresults[j].error = "Tool not found"

\* the error texts of the failed results, in list order
FailedErrors ==
    LET failed == SelectSeq(vresults, LAMBDA r : ~r.success)
    IN  [j \in 1..Len(failed) |-> failed[j].error]

\* C10: in a Report where some but not all steps failed, issues holds one
\* entry per failed result, its error text, in Step order.
C10_IssuesListErrors ==
    (pc = "verified" /\ report.status = "partial") => report.issues = FailedErrors

\* the suggestions LLMClient.verify_results gives a Report with a success
UsualSuggestions == {<<"All requirements satisfied">>, <<"Some steps failed">>}

Planned == pc # "planner"

\* C12: create_plan never raises and, for every text and every planning
\* path, returns a Plan of at least one Step.
C12_PlanNeverEmpty == Planned => Len(plan) >= 1

\* C13: in every Plan returned by create_plan the step indices are 1, 2,
\* ..., n in list order, whatever indices the plan generator supplied.
C13_IndicesSequential ==
    Planned => \A j \in 1..Len(plan) : plan[j].step = j

C13_Witness ==
    /\ Planned
    /\ planning_path(request) = "ollama"
    /\ Len(plan) = 2
    /\ request.llm.steps[1].step = 7 /\ plan[1].step = 1
    /\ request.llm.steps[2].step = 0 /\ plan[2].step = 2

\* the request went down the rule-based path of generate_plan
RuleBased == Planned /\ planning_path(request) = "rule"

\* the number of steps of the plan that name the tool
StepsFor(tool) == Cardinality({j \in 1..Len(plan) : plan[j].tool = tool})

\* C14: in the rule-based planner each tool whose keyword set matches the
\* text contributes exactly one Step, and when both sets match the
\* github_tool Step precedes the weather_tool Step, wherever the keywords
\* stand in the text.
C14_FixedToolOrder ==
    LET g == any_keyword(github_keywords, request.text)
        w == any_keyword(weather_keywords, request.text)
    IN  (RuleBased /\ (g \/ w)) =>
            /\ StepsFor("github_tool") = (IF g THEN 1 ELSE 0)
            /\ StepsFor("weather_tool") = (IF w THEN 1 ELSE 0)
            /\ Len(plan) = StepsFor("github_tool") + StepsFor("weather_tool")
            /\ (g /\ w) => /\ plan[1].tool = "github_tool"
                            /\ plan[2].tool = "weather_tool"

C14_Witness ==
    /\ RuleBased
    /\ request.text = <<"weather", "in", "repos">>
    /\ plan[1].tool = "github_tool"
    /\ plan[2].tool = "weather_tool"
    /\ Get(plan[2].parameters, "city", None) = "'Repos'"

C16_StepsCarryRequired ==
    Planned => \A j \in 1..Len(plan) :
        /\ plan[j].tool \in {"github_tool", "weather_tool"}
        /\ \E h \in 1..Len(plan[j].parameters) :
              /\ plan[j].parameters[h][1] =
                    (IF plan[j].tool = "github_tool" THEN "query" ELSE "city")
              /\ plan[j].parameters[h][2] # ListItem

\* the step in progress, and the parameter its tool requires
InStep == cur \in 1..Len(plan)

RequiredKey == IF plan[cur].tool = "github_tool" THEN "query" ELSE "city"

InRetryLoop == pc \in {"attempt", "body", "decorator_sleep", "retry_sleep"}

\* the result execute_step has returned for the step in progress
StepResult == heap[results[cur]]

\* C17: when a Step's parameters lack the key its tool requires,
\* execute_step returns a result with success=false and the
\* invalid-parameters error, the tool's execute is not called and no retry
\* attempt is made.
C17_InvalidParametersNoCall ==
    (/\ InStep
     /\ plan[cur].tool \in {"github_tool", "weather_tool"}
     /\ ~Has(plan[cur].parameters, RequiredKey)) =>
        /\ ~InRetryLoop
        /\ StepDone =>
              /\ ~StepResult.success
              /\ StepResult.error = "Invalid parameters"
              /\ bodyRuns = 0 /\ liveCalls = 0 /\ attempt = 0
              /\ lastRun = NoRun

C17_Witness ==
    /\ StepDone
    /\ cur = 2
    /\ plan[1].tool = "github_tool" /\ StepResult.error = "Invalid parameters"
    /\ plan[2].tool = "weather_tool" /\ plan[2].parameters = << >>
    /\ heap[results[1]].success
    /\ bodyRuns = 0

\* C18: when a Step names a tool that is not registered, execute_step
\* returns a result with success=false and the unknown-tool error, calls no
\* tool and uses no retry attempt.
C18_UnknownToolNoCall ==
    (InStep /\ plan[cur].tool \notin {"github_tool", "weather_tool"}) =>
        /\ ~InRetryLoop
        /\ StepDone =>
              /\ ~StepResult.success
              /\ StepResult.error = "Tool not found"
              /\ bodyRuns = 0 /\ liveCalls = 0 /\ attempt = 0
              /\ lastRun = NoRun

C18_Witness ==
    /\ StepDone
    /\ cur = 1
    /\ plan[1].tool = "email_tool"
    /\ StepResult.error = "Tool not found"
    /\ execution_history = << >>

\* C19: a malformed Step, such as one without a step index, surfaces at
\* once as a failed result: no retry attempt and no retry delay.
C19_MalformedStepNotRetried ==
    (InStep /\ plan[cur].step = 0 /\ (InRetryLoop \/ StepDone)) =>
        (pc # "retry_sleep" /\ attempt = 0)

\* C20: a provider response with a status outside the 200 range is retried
\* up to the retry limit like a transport exception; it does not end the
\* Step on the first attempt.
C20_StatusRetried ==
    (StepDone /\ lastRun.kind = "error") => liveCalls >= MAX_RETRIES

\* process_task has its Report: verify_results has returned
Reported == Planned /\ pc = "idle"

\* the data a provider's answer is made into
LiveSources == {"github_api", "open-meteo_api", "openweathermap_api"}

\* no provider has answered a call of this request with success
NoProviderAnswered ==
    \A j \in 1..Len(vresults) : vresults[j].data \notin LiveSources

\* C21: when every live call fails, by exception or by non-success status,
\* every Step of a Planner-produced Plan ends with success=true carrying
\* fallback data and the Report has completeness_score 100.
C21_AllFallbackWhenUnreachable ==
    (Reported /\ RuleBased /\ NoProviderAnswered) =>
        /\ \A j \in 1..Len(vresults) :
              vresults[j].success /\ vresults[j].data = "fallback_data"
        /\ report.completeness_score = 100

\* C23: after every Step, whatever its outcome, exactly one pacing delay is
\* taken before the next Step starts, separate from the retry delays: a
\* result is appended only on the way into the pacing delay, the delay is
\* PaceDelay whatever the attempts were, and only the pacing delay moves on
\* to the next Step.
C23_OnePacePerStep ==
    [][/\ Len(results') = Len(results) + 1 => pc' = "pace"
       /\ pc = "pace" => /\ clock' = clock + PaceDelay
                         /\ pc' \in {"step", "verify"}
                         /\ attempt' = attempt
       /\ cur' = cur + 1 => pc = "pace" /\ pc' = "step"
       /\ (pc' = "step" /\ cur' > 1) => pc = "pace"]_vars

\* the second Step starts after a Step that used up its retries: two retry
\* delays and then one pacing delay
C23_Witness ==
    /\ pc = "step" /\ cur = 2 /\ plansRun = 1
    /\ heap[results[1]].error = "Failed after attempts"
    /\ plan[1].step = 0
    /\ clock = 2 * RETRY_DELAY * TicksPerSecond + PaceDelay

\* C24: in the Executor's retry loop the delay after failed attempt k is
\* k x RETRY_DELAY (attempt counts from 0, so k = attempt + 1).
C24_LinearRetryDelay ==
    [][pc = "retry_sleep" =>
          clock' = clock + (attempt + 1) * RETRY_DELAY * TicksPerSecond]_vars

\* C25: process_task always ends with a Report; no exception crosses from
\* Planner, Executor or Verifier to the caller.
C25_NoExceptionCrosses == pc # "raised"

\* C26: a Report with status "failed" is displayed by the CLI like any
\* other: display reaches normal completion, not the internal-fault path.
C26_FailedReportDisplayed ==
    (pc \in {"complete", "fault"} /\ report.status = "failed") => pc = "complete"

\* C27: a payload stored in a tool's cache is not altered while it stays
\* the entry of its key, by any later read, step execution or request.
C27_PayloadUnaltered ==
    [][\A t \in Tools : \A k \in DOMAIN cache[t] :
          (k \in DOMAIN cache'[t] /\ cache'[t][k] = cache[t][k])
              => heap'[cache[t][k].result] = heap[cache[t][k].result]]_vars

\* C29: every result in the list returned by execute_plan has: success=false
\* implies no data and an error text; success=true implies data.
C29_ResultShape ==
    \A j \in 1..Len(results) :
        LET r == heap[results[j]] IN
        /\ ~r.success => (r.data = None /\ r.error # None)
        /\ r.success => r.data # None

C29_Witness ==
    /\ pc = "verify"
    /\ Len(results) = 2
    /\ ~heap[results[1]].success /\ heap[results[1]].error = "GitHub API error"
    /\ heap[results[2]].success /\ heap[results[2]].data = "fallback_data"

\* C30: for a fixed number of step results completeness_score does not
\* decrease as the number of successful results grows, and lies in 0..100.
C30_ScoreMonotone ==
    pc = "verified" =>
        /\ report.completeness_score \in 0..100
        /\ \A rs \in ResultLists :
              (/\ Len(rs) = NTotal
               /\ Len(successful_results(rs)) >= NSuccessful)
              => verify_results(Len(rs), rs).completeness_score
                    >= report.completeness_score

C30_Witness ==
    /\ pc = "verified"
    /\ NTotal = 3 /\ NSuccessful = 1
    /\ report.completeness_score = 50

\* the locals of the call that is running
Running ==
    Locals(plan, results, cur, attempt, dattempt, pc, bodyRuns, liveCalls, lastRun)

\* a call is inside the attempt loop of exactly the step after its last
\* result, or in the pacing delay of the step of its last result, or done
InSequence(c) ==
    /\ c.pc \in {"step", "attempt", "body", "live", "decorator_sleep",
                  "retry_sleep"} => Len(c.results) = c.cur - 1
    /\ c.pc = "pace" => Len(c.results) = c.cur
    /\ c.pc = "verify" => Len(c.results) = Len(c.plan) /\ c.cur = Len(c.plan)

\* C22: within one plan execution Step i+1 does not begin before Step i's
\* attempt loop and pacing delay are over, and no two Steps of a Plan are in
\* progress at once, also while another call of execute_plan is in flight:
\* a call moves to its next Step only by its own pacing delay, after the
\* result of the Step before, and another call's steps leave its position
\* and its results alone.
C22_StepsInSequence ==
    [][/\ InSequence(Running)' /\ InSequence(parked)'
       /\ parked' = parked =>
             /\ plan' = plan
             /\ cur' # cur => /\ cur' = cur + 1
                              /\ pc = "pace" /\ pc' = "step"
                              /\ Len(results) = cur
                              /\ clock' = clock + PaceDelay
       /\ parked' # parked => (parked' = Running /\ Running' = parked)]_vars

C22_Witness ==
    /\ pc = "live" /\ cur = 2 /\ Len(results) = 1
    /\ parked.pc = "retry_sleep" /\ parked.cur = 1 /\ parked.attempt = 1
    /\ clock > 0

\* the entry under key k of tool t differs after the step
Written(t, k) ==
    /\ k \in DOMAIN cache'[t]
    /\ k \in DOMAIN cache[t] => cache'[t][k] # cache[t][k]

\* C28: when two requests execute the same tool with the same fingerprint
\* at once, the entry is at any time the whole outcome of the request that
\* stored last, never a mixture of two writes, and a request that reads
\* between the two writes gets the first writer's entry: an entry changes
\* only when a call returns from its provider for that fingerprint, and then
\* to that call's fresh result with the time of that store; no entry goes
\* away; a result that is not fresh is the result of the entry as it is
\* then, within its time to live.
C28_LastWriterWins ==
    [][/\ \A t \in Tools : \A k \in DOMAIN cache'[t] :
             Written(t, k) =>
                /\ pc = "live"
                /\ t = plan[cur].tool /\ k = get_cache_key(plan[cur].parameters)
                /\ cache'[t][k] = [result |-> Len(heap) + 1, timestamp |-> clock]
                /\ Len(heap') = Len(heap) + 1
                /\ heap'[Len(heap) + 1].timestamp = clock
                /\ heap'[Len(heap) + 1].data \in LiveSources
                /\ results' = Append(results, Len(heap) + 1)
       /\ \A t \in Tools : DOMAIN cache[t] \subseteq DOMAIN cache'[t]
       /\ (/\ parked' = parked
           /\ Len(results') = Len(results) + 1
           /\ results'[Len(results')] <= Len(heap)) =>
             LET t == plan[cur].tool
                 k == get_cache_key(plan[cur].parameters)
             IN  /\ pc = "body"
                 /\ k \in DOMAIN cache[t]
                 /\ results'[Len(results')] = cache[t][k].result
                 /\ clock - cache[t][k].timestamp < TTL]_vars

\* both calls missed and stored under one fingerprint; the call that stored
\* first read its own entry again before the other call's store replaced it
C28_Witness ==
    LET key == get_cache_key(plan[1].parameters) IN
    /\ pc = "pace" /\ cur = 1 /\ plan[1].tool = "github_tool"
    /\ lastRun.kind = "live" /\ lastRun.present
    /\ Len(parked.results) = 2
    /\ parked.results[1] = parked.results[2]
    /\ parked.lastRun.kind = "cached"
    /\ lastRun.entry = parked.results[1]
    /\ cache["github_tool"][key].result = results[1]
    /\ results[1] # parked.results[1]
\* ------------------------------------------------------------------ C31
\* the key/value pairs of a parameter mapping, whatever their order
Pairs(kwargs) == {kwargs[j] : j \in 1..Len(kwargs)}

\* C31: two parameter mappings that hold the same key/value pairs have
\* the same fingerprint, whatever the order the pairs were inserted in:
\* any two steps of a plan whose parameters hold the same pairs have the
\* same cache key, and a step that follows, within the TTL, a step of the
\* same tool that stored its result under the same pairs finds the entry.
C31_KeyOrderIndependent ==
    /\ \A j, k \in 1..Len(plan) :
          /\ is_mapping(plan[j].parameters) /\ is_mapping(plan[k].parameters)
          /\ Pairs(plan[j].parameters) = Pairs(plan[k].parameters)
          => get_cache_key(plan[j].parameters) = get_cache_key(plan[k].parameters)
    /\ /\ StepDone /\ cur = 2 /\ lastRun.tool = plan[1].tool
       /\ plan[1].tool = plan[2].tool
       /\ is_mapping(plan[1].parameters) /\ is_mapping(plan[2].parameters)
       /\ Pairs(plan[1].parameters) = Pairs(plan[2].parameters)
       /\ heap[results[1]].success /\ heap[results[1]].data = "github_api"
       => lastRun.kind = "cached" /\ results[2] = results[1]

\* two steps with the same pairs inserted in different orders, the second
\* served from the entry the first stored
C31_Witness ==
    /\ StepDone /\ cur = 2
    /\ plan[1].tool = "github_tool" /\ plan[2].tool = "github_tool"
    /\ Pairs(plan[1].parameters) = Pairs(plan[2].parameters)
    /\ plan[1].parameters # plan[2].parameters
    /\ lastRun.kind = "cached" /\ results[2] = results[1]
\* ------------------------------------------------------------------ C32
\* C32: in the list execute_plan is building, every result that a tool
\* returned carries the index and the tool name of the step at its own
\* position, whatever steps were executed after it.
C32_ResultsKeepTheirStep ==
    \A j \in 1..Len(results) :
        heap[results[j]].step[1] = "index" =>
            /\ heap[results[j]].step = <<"index", plan[j].step>>
            /\ heap[results[j]].tool = plan[j].tool
\* ------------------------------------------------------------------ C33
\* C33: a result that a live provider call produced does not carry
\* cached = True when it is returned, and a result that sits in the list
\* of execute_plan without the mark is not given it by a later step.
C33_CachedOnlyWhenServed ==
    [][/\ (pc = "body" /\ pc' = "pace" /\ lastRun'.kind = "live")
           => ~heap'[lastRun'.ref].cached
       /\ \A j \in 1..Len(results) :
             (/\ Len(results') >= j /\ results'[j] = results[j]
              /\ ~heap[results[j]].cached)
             => ~heap'[results[j]].cached]_vars
\* ------------------------------------------------------------------ C34
\* the entry of tool t under key k holds a successful live answer for k
LiveEntry(t, k) ==
    LET r == heap[cache[t][k].result]
    IN  /\ r.success
        /\ r.error = None
        /\ r.data \in LiveSources
        /\ r.subject = (IF t = "github_tool" THEN Get(k, "query", None)
                                             ELSE Get(k, "city", None))

\* C34: every entry of every tool's cache holds a successful outcome of a
\* live provider call, never fallback data or a failure, and an entry is
\* written only by a body run that made a successful live call, under the
\* fingerprint of that run's parameters.
C34_CacheHoldsLiveOnly ==
    /\ [](\A t \in Tools : \A k \in DOMAIN cache[t] : LiveEntry(t, k))
    /\ [][\A t \in Tools : \A k \in DOMAIN cache'[t] :
             (k \notin DOMAIN cache[t] \/ cache'[t][k] # cache[t][k])
             => /\ pc = "body"
                /\ lastRun'.kind = "live" /\ lastRun'.live /\ lastRun'.stored
                /\ lastRun'.tool = t /\ lastRun'.key = k
                /\ k = get_cache_key(plan[cur].parameters)
                /\ cache'[t][k] = [result |-> lastRun'.ref, timestamp |-> clock]]_vars

\* both tools hold an entry, the second one just written
C34_Witness ==
    /\ \A t \in Tools : DOMAIN cache[t] # {}
    /\ StepDone /\ lastRun.kind = "live" /\ lastRun.stored
    /\ ~lastRun.present
\* ------------------------------------------------------------------ C35
\* C35: every Report built for a plan that execute_plan went through has
\* a summary and a plan_summary whose successful (executed) and failed
\* counts add up to the total, the length of the plan.
C35_CountsAddUp ==
    (pc = "idle" /\ report.status # None) =>
        /\ report.has_summary /\ report.task_execution
        /\ report.total_steps = Len(plan)
        /\ report.successful_steps + report.failed_steps = report.total_steps
\* ------------------------------------------------------------------ C36
\* the step in progress names no registered tool or lacks the parameter
\* its tool requires
Rejectable ==
    /\ InStep /\ is_mapping(plan[cur].parameters)
    /\ \/ plan[cur].tool \notin {"github_tool", "weather_tool"}
       \/ ~Has(plan[cur].parameters, RequiredKey)

\* C36: while execute_step is at work on a step that names no registered
\* tool or lacks its required parameter, no tool's cache and no entry of
\* the execution history changes; and while it is at work on a step of
\* one tool, the cache of the other tool does not change.
C36_RejectedStepLeavesNoTrace ==
    [][(pc \in {"step", "attempt", "body", "decorator_sleep", "retry_sleep"}
        /\ InStep)
       => /\ Rejectable => (/\ cache' = cache
                            /\ execution_history' = execution_history
                            /\ pc' = "pace"
                            /\ liveCalls' = 0 /\ bodyRuns' = 0)
          /\ \A t \in Tools :
                t # plan[cur].tool => cache'[t] = cache[t]]_vars

\* a step rejected for its parameters after a step of the other tool has
\* stored an entry and left an entry in the history
C36_Witness ==
    /\ StepDone /\ cur = 2
    /\ plan[1].tool = "github_tool" /\ plan[2].tool = "weather_tool"
    /\ StepResult.error = "Invalid parameters"
    /\ DOMAIN cache["github_tool"] # {} /\ DOMAIN cache["weather_tool"] = {}
    /\ Len(execution_history) = 1
\* ------------------------------------------------------------------ C37
\* the positions of the plan whose github query is a default of the
\* Planner: the step of the exception fallback plan, the default step of
\* a text without keyword, the github step of a text that names no known
\* language or topic, and a step the local LLM gave without a query
DefaultedSteps ==
    LET text == request.text
        g == any_keyword(github_keywords, text)
        w == any_keyword(weather_keywords, text)
        path == planning_path(request)
    IN  {j \in 1..Len(plan) :
            /\ plan[j].tool = "github_tool"
            /\ \/ path = "fallback"
               \/ path = "rule" /\ ~g /\ ~w
               \/ /\ path = "rule" /\ g
                  /\ FirstInText(languages, text) = None
                  /\ FirstInText(topics, text) = None
               \/ /\ path = "ollama"
                  /\ ~Has(IF request.llm.steps[j].has_parameters
                          THEN request.llm.steps[j].parameters ELSE << >>,
                          "query")}

\* C37: the Planner has one default query for github_tool: wherever a
\* plan holds a defaulted github query, it is the value that
\* _validate_plan fills in.
C37_OneDefaultQuery ==
    Planned =>
        \A j \in DefaultedSteps :
            Get(plan[j].parameters, "query", None)
                = Get(Defaults("github_tool"), "query", None)
\* ------------------------------------------------------------------ C38
\* C38: for the empty list of step results verify_results returns a
\* Report with completeness_score 0 and status "failed", not "completed".
C38_EmptyListFailed ==
    (pc = "verified" /\ vresults = << >>) =>
        /\ report.completeness_score = 0
        /\ report.status = "failed"
        /\ ~report.is_complete
        /\ report.errors = << >>

\* verify_results has returned for the empty list
C38_Witness ==
    /\ pc = "verified" /\ Len(vresults) = 0
    /\ report.status = "failed"
    /\ report.missing_data = <<"All execution steps failed">>
\* ------------------------------------------------------------------ C39
\* C39: once the calls of execute_plan have returned, the execution
\* history holds one entry per step executed: total_executions is the
\* number of steps of all the plans, and after the first plan the failed
\* count is the number of its results with success = false.
C39_HistoryCountsSteps ==
    (pc = "idle" /\ plansRun >= 1) =>
        /\ get_execution_summary.total_executions = stepsRun
        /\ plansRun = 1 =>
              get_execution_summary.failed
                  = Cardinality({j \in 1..Len(results) : ~heap[results[j]].success})

====
